---- MODULE Spec2Model ----
(***************************************************************************)
(* Model of the extraction pipeline of src/config.py (ExtractionService,   *)
(* the extractors, the domain records) and of the sheet sink of            *)
(* src/google_sheets_integration.py.                                       *)
(*                                                                         *)
(* A caller invokes process_url up to MaxRuns times, one call after the    *)
(* other.  The variables below the line "current call" are the locals of   *)
(* the call in progress; they are re-created by every call.                *)
(***************************************************************************)
EXTENDS Integers, Sequences, FiniteSets, TLC

VARIABLES
    pc,             \* position of the call in progress
    calls,          \* number of process_url calls the caller has made
    global_stats,   \* GlobalStats: processed / success / fail
    sheet_rows,     \* number of rows the sheet sink has stored
    \* ---- current call ----
    url,            \* argument url
    extraction_id,  \* argument extraction_id
    progress,       \* ExtractionState.progress
    status,         \* ExtractionState.status
    updates,        \* every update_progress(progress, status) applied, in order
    attempt,        \* loop variable of fetch_content
    gets,           \* requests.get calls issued by this call
    response,       \* <<>> or <<r>>: what the latest requests.get returned
    sleeps,         \* time.sleep durations of the current fetch_content, in ticks
    content,        \* <<>> is None, <<page>> is the fetched text
    company,        \* <<>> before CompanyEntity() is created, <<record>> after
    trace,          \* stages run so far, in order
    sink_calls,     \* outcomes of sheet.append_row within add_row
    log,            \* log_repository entries emitted by this call
    exc,            \* <<>> or <<class>>: the exception being propagated
    faulted,        \* an exception was raised inside an extractor or later
    result,         \* <<>> while running, <<r>> once process_url returned r
    row_sent,       \* <<>> or <<row>>: the argument of add_row
    \* ---- a text function applied on its own ----
    text_fn,        \* the function applied, "none" before
    text_arg,       \* its argument
    text_ret,       \* its result
    \* ---- tasks on one event loop ----
    running,        \* the task whose coroutine holds the thread, 0 for none
    tasks,          \* per task: position, attempt, url, returned result
    \* ---- the sheet on its own ----
    sheet,          \* the rows of the worksheet, in order
    sheet_pc,       \* "new" before the constructor, then "ready" or "failed"
    sheet_calls     \* the constructor's branch and the calls made, in order

vars == <<pc, calls, global_stats, sheet_rows, url, extraction_id, progress,
          status, updates, attempt, gets, response, sleeps, content, company,
          trace, sink_calls, log, exc, faulted, result, row_sent,
          text_fn, text_arg, text_ret, running, tasks, sheet, sheet_pc,
          sheet_calls>>

textvars == <<text_fn, text_arg, text_ret>>

loopvars == <<running, tasks>>

sheetvars == <<sheet, sheet_pc, sheet_calls>>

runvars == <<pc, calls, global_stats, sheet_rows, url, extraction_id, progress,
             status, updates, attempt, gets, response, sleeps, content, company,
             trace, sink_calls, log, exc, faulted, result, row_sent>>

-----------------------------------------------------------------------------
(* Bounds of the model *)

\* process_url calls the caller makes
MaxRuns == 2
\* bits of the floating-point significand (53 in a Python float)
MantBits == 2
\* largest elapsed time, in ms, time.time() reports for a call
MaxDuration == 1
\* longest text over Alphabet the text functions are applied to
MaxLen == 5
\* tasks scheduled on the event loop
MaxTasks == 2
\* add_row / clear_sheet calls made on the sheet
MaxSheetCalls == 3

(* Program constants *)

\* Config: "MAX_RETRIES": 3
MAX_RETRIES == 3
\* company_description is cut to [:500]
DESC_LIMIT == 500
\* list(valid_phones)[:5]
PHONE_LIMIT == 5
\* len(address) > 10
ADDRESS_MIN == 10

-----------------------------------------------------------------------------
(* Small helpers *)

Min(a, b) == IF a < b THEN a ELSE b

RECURSIVE Pow2(_)
Pow2(n) == IF n = 0 THEN 1 ELSE 2 * Pow2(n - 1)

None == <<>>
Some(x) == <<x>>

-----------------------------------------------------------------------------
(* Inputs: URLs.  A URL is given by what urlparse and the substring tests   *)
(* of the extractors see of it: its scheme, its netloc and the keywords it  *)
(* contains.                                                                *)

AppleUrl ==
    [text |-> "https://www.apple.com/iphone-15-pro/", scheme |-> "https",
     netloc |-> "www.apple.com", has |-> {"apple.com", "iphone", "15-pro"}]
AcmeUrl ==
    [text |-> "https://acme.io/widgets", scheme |-> "https",
     netloc |-> "acme.io", has |-> {}]
NoSchemeUrl ==
    [text |-> "not-a-url", scheme |-> "", netloc |-> "", has |-> {}]
NoHostUrl ==
    [text |-> "https://", scheme |-> "https", netloc |-> "", has |-> {}]

URLs == {AppleUrl, AcmeUrl, NoSchemeUrl, NoHostUrl}

\* URLs for the extraction stages alone: each known domain with and without
\* a product keyword, and two URLs that contain two domain names
AppleHomeUrl ==
    [text |-> "https://www.apple.com/", scheme |-> "https",
     netloc |-> "www.apple.com", has |-> {"apple.com"}]
MicrosoftUrl ==
    [text |-> "https://www.microsoft.com/en-us/microsoft-365", scheme |-> "https",
     netloc |-> "www.microsoft.com", has |-> {"microsoft.com", "365"}]
MicrosoftHomeUrl ==
    [text |-> "https://www.microsoft.com/en-us", scheme |-> "https",
     netloc |-> "www.microsoft.com", has |-> {"microsoft.com"}]
SamsungUrl ==
    [text |-> "https://www.samsung.com/us/smartphones/galaxy-s23-ultra/",
     scheme |-> "https", netloc |-> "www.samsung.com",
     has |-> {"samsung.com", "galaxy", "s23"}]
SamsungHomeUrl ==
    [text |-> "https://www.samsung.com/us/", scheme |-> "https",
     netloc |-> "www.samsung.com", has |-> {"samsung.com"}]
AppleInMicrosoftUrl ==
    [text |-> "https://www.microsoft.com/microsoft-365?from=apple.com",
     scheme |-> "https", netloc |-> "www.microsoft.com",
     has |-> {"microsoft.com", "365", "apple.com"}]
MicrosoftInSamsungUrl ==
    [text |-> "https://www.samsung.com/galaxy-s23?compare=microsoft.com/surface",
     scheme |-> "https", netloc |-> "www.samsung.com",
     has |-> {"samsung.com", "galaxy", "s23", "microsoft.com", "surface"}]

LabURLs ==
    {AppleUrl, AppleHomeUrl, MicrosoftUrl, MicrosoftHomeUrl, SamsungUrl,
     SamsungHomeUrl, AcmeUrl, AppleInMicrosoftUrl, MicrosoftInSamsungUrl}

(* Inputs: response bodies.  A body is given by its length and by what the  *)
(* HTML queries and regular expressions of the extractors find in it.  A    *)
(* phone candidate is a match of phone_pattern without its separators: ten  *)
(* digits, with or without "+1" before them.                                *)

NoText == [text |-> "", len |-> 0]

EmptyPage ==
    [len |-> 0, title |-> None, meta |-> None, og |-> None, main_desc |-> None,
     emails |-> <<>>, phones |-> <<>>, addresses |-> <<>>,
     product_desc |-> None, features |-> <<>>, sections |-> <<>>]

\* a body of one blank: text in which nothing is found
BlankPage == [EmptyPage EXCEPT !.len = 1]

AcmePage ==
    [len |-> 900,
     title |-> Some("Acme Widgets"),
     meta |-> Some([text |-> "Acme makes widgets", len |-> 620]),
     og |-> None,
     main_desc |-> None,
     emails |-> << [lower |-> "jane.doe@acme.io", skip |-> FALSE],
                   [lower |-> "test@example.com", skip |-> TRUE],
                   [lower |-> "jane.doe@acme.io", skip |-> FALSE] >>,
     phones |-> << <<"4","1","5","5","5","5","2","6","7","1">>,
                   <<"+","1","4","1","5","5","5","5","2","6","7","1">> >>,
     addresses |-> << [text |-> "1 Main Street, Springfield", len |-> 26,
                       contains |-> {"1 Main Street, Springfield"}],
                      [text |-> "HQ", len |-> 2, contains |-> {"HQ"}] >>,
     product_desc |-> Some([text |-> "The best widget yet", len |-> 19,
                            valid |-> TRUE]),
     features |-> << [text |-> "Lasts a whole week", valid |-> TRUE],
                     [text |-> "Menu", valid |-> FALSE] >>,
     sections |-> << [heading |-> Some([text |-> "Widget Pro model", valid |-> TRUE]),
                      desc |-> None,
                      features |-> << [text |-> "Two year warranty", valid |-> TRUE] >>],
                     [heading |-> None, desc |-> None, features |-> <<>>] >>]

Bodies == {EmptyPage, BlankPage, AcmePage}

\* a catalogue: two named product sections and a third one, the first product
\* with a description longer than 500 characters and six feature elements
CatalogPage ==
    [AcmePage EXCEPT
       !.product_desc = Some([text |-> "A very long product story", len |-> 730,
                              valid |-> TRUE]),
       !.sections =
          << [heading |-> Some([text |-> "Widget Pro model", valid |-> TRUE]),
              desc |-> Some([text |-> "A very long product story", len |-> 730,
                             valid |-> TRUE]),
              features |-> << [text |-> "Two year warranty", valid |-> TRUE],
                              [text |-> "Ships in two days", valid |-> TRUE],
                              [text |-> "Close", valid |-> FALSE],
                              [text |-> "Runs on two cells", valid |-> TRUE],
                              [text |-> "Fits every shelf", valid |-> TRUE],
                              [text |-> "Made of steel parts", valid |-> TRUE] >>],
             [heading |-> Some([text |-> "Widget Mini model", valid |-> TRUE]),
              desc |-> None, features |-> <<>>],
             [heading |-> Some([text |-> "Widget Max model", valid |-> TRUE]),
              desc |-> None, features |-> <<>>] >>]

\* a page whose product sections have no usable heading although they have
\* descriptions and features
NamelessPage ==
    [AcmePage EXCEPT
       !.sections =
          << [heading |-> None,
              desc |-> Some([text |-> "The best widget yet", len |-> 19,
                             valid |-> TRUE]),
              features |-> << [text |-> "Two year warranty", valid |-> TRUE] >>],
             [heading |-> Some([text |-> "Menu", valid |-> FALSE]),
              desc |-> Some([text |-> "The best widget yet", len |-> 19,
                             valid |-> TRUE]),
              features |-> << [text |-> "Ships in two days", valid |-> TRUE] >>] >>]

\* a contact page: six different numbers, some written twice, and three
\* address elements, the second of which contains the first and the third of
\* which repeats the first
ContactPage ==
    [BlankPage EXCEPT
       !.len = 400,
       !.addresses =
          << [text |-> "1 Main Street", len |-> 13,
              contains |-> {"1 Main Street"}],
             [text |-> "1 Main Street, Springfield", len |-> 26,
              contains |-> {"1 Main Street", "1 Main Street, Springfield"}],
             [text |-> "1 Main Street", len |-> 13,
              contains |-> {"1 Main Street"}] >>,
       !.emails = << [lower |-> "jane.doe@acme.io", skip |-> FALSE],
                     [lower |-> "sales@acme.io", skip |-> FALSE],
                     [lower |-> "jane.doe@acme.io", skip |-> FALSE],
                     [lower |-> "user@acme.io", skip |-> TRUE] >>,
       !.phones = << <<"4","1","5","5","5","5","2","6","7","1">>,
                     <<"+","1","4","1","5","5","5","5","2","6","7","1">>,
                     <<"4","1","5","5","5","5","2","6","7","2">>,
                     <<"4","1","5","5","5","5","2","6","7","3">>,
                     <<"+","1","4","1","5","5","5","5","2","6","7","3">>,
                     <<"4","1","5","5","5","5","2","6","7","4">>,
                     <<"4","1","5","5","5","5","2","6","7","5">>,
                     <<"4","1","5","5","5","5","2","6","7","6">> >>]

\* a page whose meta description tag has an empty content attribute, while
\* its og:description tag and its "about" section carry text
EmptyMetaPage ==
    [BlankPage EXCEPT
       !.len = 300,
       !.title = Some("Acme Widgets"),
       !.meta = Some(NoText),
       !.og = Some([text |-> "Widgets for all", len |-> 15]),
       !.main_desc = Some([text |-> "About our widgets", len |-> 17])]

\* a page without a meta description tag: og:description is the source
OgPage ==
    [EmptyMetaPage EXCEPT !.meta = None]

\* a page whose only description source is an "overview" section
OverviewPage ==
    [EmptyMetaPage EXCEPT !.meta = None, !.og = None]

\* the (URL, body) pairs the extraction stages are run on; the contact
\* extractor and the description rules do not look at the URL, so the pages
\* made for them go with one URL
LabInputs ==
    (LabURLs \X {BlankPage, AcmePage, CatalogPage, NamelessPage})
        \cup ({AcmeUrl} \X {ContactPage, EmptyMetaPage, OgPage, OverviewPage})

-----------------------------------------------------------------------------
(* Inputs: texts.  A text is the sequence of its characters.               *)

\* the characters of the short texts: a word character, two kinds of
\* whitespace and a character clean_text removes
Alphabet == {"a", " ", "\t", "#"}

\* the texts over Alphabet of at most n characters
Strings(n) == UNION {[1 .. k -> Alphabet] : k \in 0 .. n}

\* the content of the email example
EmailSample ==
    << "c","o","n","t","a","c","t",":"," ","j","a","n","e",".","d","o","e",
       "@","e","x","a","m","p","l","e","-","c","o","m","p","a","n","y",".",
       "o","r","g"," ","a","n","d"," ","t","e","s","t","@","e","x","a","m",
       "p","l","e",".","c","o","m" >>

\* one address in two spellings and a token whose last label is too short
EmailCaseSample ==
    << "J","a","n","e","@","A","c","m","e",".","i","o",","," ","j","a","n",
       "e","@","a","c","m","e",".","i","o",","," ","a","@","b",".","c" >>

\* a number with an area code in brackets
PhoneParen ==
    << "(","4","1","5",")"," ","5","5","5","-","2","6","7","1" >>

\* the same number with a leading 1
PhoneDashed ==
    << "1","-","4","1","5","-","5","5","5","-","2","6","7","1" >>

\* both spellings in one content
PhoneBoth ==
    << "c","a","l","l"," ","(","4","1","5",")"," ","5","5","5","-","2","6",
       "7","1"," ","o","r"," ","1","-","4","1","5","-","5","5","5","-","2",
       "6","7","1" >>

\* a number with the +1 prefix, then seven digits
PhonePlus ==
    << "+","1"," ","4","1","5",".","5","5","5",".","2","6","7","2"," ","e",
       "x","t"," ","5","5","5","-","2","6","7","1" >>

\* a usable text
FeatureText ==
    << "L","a","s","t","s"," ","a"," ","w","h","o","l","e"," ","w","e","e",
       "k" >>

\* two tokens, nine characters
ShortText ==
    << "T","w","o"," ","w","o","r","d","s" >>

\* one token of fifteen characters
OneTokenText ==
    << "W","i","d","g","e","t","-","P","r","o","-","2","0","0","0" >>

\* a text with a navigation word in capitals
NavText ==
    << "G","o"," ","t","o"," ","t","h","e"," ","N","e","x","t"," ","p","a",
       "g","e" >>

\* a navigation word inside another word
InnerNavText ==
    << "R","e","o","p","e","n","i","n","g"," ","i","n"," ","J","u","n","e" >>

\* allowed and disallowed punctuation
PunctuatedText ==
    << "P","r","i","c","e",":"," ","£","2","0"," ","&"," ","u","p"," ","(",
       "p","l","u","s"," ","t","a","x",")" >>

Samples ==
    {EmailSample, EmailCaseSample, PhoneParen, PhoneDashed, PhoneBoth,
     PhonePlus, FeatureText, ShortText, OneTokenText, NavText,
     InnerNavText, PunctuatedText}

TextInputs == Strings(MaxLen) \cup Samples

-----------------------------------------------------------------------------
(* Domain records *)

\* ProductEntity()
NewProduct ==
    [product_name |-> "", product_description |-> NoText, main_category |-> "",
     sub_category |-> "", price |-> 0, currency |-> "USD", features |-> <<>>,
     specifications |-> <<>>, url |-> ""]

\* CompanyEntity() followed by company.url = url
NewCompany(u) ==
    [url |-> u.text, company_name |-> "", company_type |-> "",
     company_description |-> NoText, products |-> <<>>, emails |-> <<>>,
     phones |-> <<>>, addresses |-> <<>>]

\* sep.join(parts); the join of no parts is the empty string whatever sep is
Join(sep, parts) ==
    IF parts = <<>> THEN [sep |-> "", parts |-> <<>>]
    ELSE [sep |-> sep, parts |-> parts]

\* f"{price} {currency}" if price > 0 else "N/A"
PriceText(p) == IF p.price > 0 THEN <<p.price, p.currency>> ELSE <<"N/A">>

\* ProductEntity.to_dict
ProductToDict(p) ==
    [name |-> p.product_name, description |-> p.product_description,
     category |-> p.main_category, sub_category |-> p.sub_category,
     price |-> PriceText(p),
     features |-> Join(", ", p.features),
     specifications |-> Join(", ", p.specifications),
     url |-> p.url]

\* CompanyEntity.to_dict
ToDict(c) ==
    [url |-> c.url, company_name |-> c.company_name,
     company_type |-> c.company_type,
     company_description |-> c.company_description,
     emails |-> c.emails, phones |-> c.phones, addresses |-> c.addresses,
     products |-> [i \in DOMAIN c.products |-> ProductToDict(c.products[i])]]

-----------------------------------------------------------------------------
(* Extractors *)

\* the prefix seq[:n]
Prefix(seq, n) == SubSeq(seq, 1, Min(n, Len(seq)))

\* the texts of the candidates that pass is_valid_text, in document order
RECURSIVE ValidTexts(_)
ValidTexts(elems) ==
    IF elems = <<>> THEN <<>>
    ELSE (IF Head(elems).valid THEN <<Head(elems).text>> ELSE <<>>)
         \o ValidTexts(Tail(elems))

\* CompanyExtractor.extract: the rule chain that picks the company name
NameDomain(u) ==
    IF "apple.com" \in u.has THEN "apple"
    ELSE IF "microsoft.com" \in u.has THEN "microsoft"
    ELSE IF "samsung.com" \in u.has THEN "samsung"
    ELSE "generic"

\* mutant: ProductExtractor.extract tests microsoft.com first
DomainMicrosoftFirst(u) ==
    IF "microsoft.com" \in u.has THEN "microsoft"
    ELSE IF "apple.com" \in u.has THEN "apple"
    ELSE IF "samsung.com" \in u.has THEN "samsung"
    ELSE "generic"

\* ProductExtractor.extract: the rule chain that picks the product strategy
Domain(u) ==
    IF "apple.com" \in u.has THEN "apple"
    ELSE IF "microsoft.com" \in u.has THEN "microsoft"
    ELSE IF "samsung.com" \in u.has THEN "samsung"
    ELSE "generic"

\* CompanyExtractor.extract: the company name
CompanyName(page, u, c) ==
    CASE NameDomain(u) = "apple" -> "Apple"
      [] NameDomain(u) = "microsoft" -> "Microsoft"
      [] NameDomain(u) = "samsung" -> "Samsung"
      [] OTHER -> IF page.title # None THEN page.title[1] ELSE c.company_name

\* CompanyExtractor.extract: the description, None when no source is found
CompanyDescription(page) ==
    IF page.meta # None THEN page.meta
    ELSE IF page.og # None THEN page.og
    ELSE IF page.main_desc # None THEN page.main_desc
    ELSE None

\* clean_text(description)[:500]
CutDescription(d) == [text |-> d.text, len |-> Min(d.len, DESC_LIMIT)]

\* CompanyExtractor.extract
CompanyExtract(page, u, c) ==
    LET d == CompanyDescription(page) IN
    [c EXCEPT !.company_name = CompanyName(page, u, c),
              !.company_description =
                  IF d # None /\ d[1].len > 0 THEN CutDescription(d[1]) ELSE @,
              !.company_type = "Technology"]

\* ContactExtractor.extract: the emails kept
ValidEmails(page) ==
    {page.emails[i].lower : i \in {j \in DOMAIN page.emails : ~page.emails[j].skip}}

\* mutant: every candidate gets a "+" and nothing else
NormalizePhonePlusOnly(cleaned) == <<"+">> \o cleaned

\* ContactExtractor.extract: one phone candidate, separators already removed
NormalizePhone(cleaned) ==
    IF Head(cleaned) = "1" THEN <<"+">> \o cleaned
    ELSE IF Head(cleaned) # "+" THEN <<"+", "1">> \o cleaned
    ELSE cleaned

\* ContactExtractor.extract: the set valid_phones
ValidPhones(page) ==
    {NormalizePhone(page.phones[i]) :
        i \in {j \in DOMAIN page.phones : Len(page.phones[j]) >= 10}}

\* list(S): the elements of the set S, each once, in an arbitrary order
ListsOf(S) ==
    {l \in [1 .. Cardinality(S) -> S] :
        \A i, j \in 1 .. Cardinality(S) : l[i] = l[j] => i = j}

\* list(valid_emails)
EmailLists(S) == ListsOf(S)

\* mutant: the list of phones is not cut
PhoneListsUncut(S) == ListsOf(S)

\* list(valid_phones)[:5]: the first PHONE_LIMIT of the set in its arbitrary order
PhoneLists(S) == {Prefix(l, PHONE_LIMIT) : l \in ListsOf(S)}

\* ContactExtractor.extract: the address loop
RECURSIVE AddAddresses(_, _)
AddAddresses(elems, addrs) ==
    IF elems = <<>> THEN addrs
    ELSE LET a == Head(elems)
             present == \E i \in DOMAIN addrs : addrs[i] \in a.contains
         IN AddAddresses(Tail(elems),
                IF a.len > ADDRESS_MIN /\ ~present
                THEN Append(addrs, a.text) ELSE addrs)

\* mutant: the contact extractor also resets the description
ContactExtractResetsDescription(page, u, c, found, kept) ==
    [c EXCEPT !.emails = found,
              !.phones = kept,
              !.addresses = AddAddresses(page.addresses, @),
              !.company_description = NoText]

\* ContactExtractor.extract, found being list(valid_emails) and kept
\* list(valid_phones)[:5]
ContactExtract(page, u, c, found, kept) ==
    [c EXCEPT !.emails = found,
              !.phones = kept,
              !.addresses = AddAddresses(page.addresses, @)]

\* the name and categories a known domain derives from the URL
NamedProduct(u) ==
    CASE Domain(u) = "apple" ->
           IF "iphone" \in u.has
           THEN [NewProduct EXCEPT
                   !.product_name = IF "15-pro" \in u.has
                                    THEN "iPhone 15 Pro" ELSE "iPhone",
                   !.main_category = "Smartphones"]
           ELSE IF "macbook" \in u.has
           THEN [NewProduct EXCEPT !.product_name = "MacBook",
                                   !.main_category = "Laptops"]
           ELSE IF "ipad" \in u.has
           THEN [NewProduct EXCEPT !.product_name = "iPad",
                                   !.main_category = "Tablets"]
           ELSE NewProduct
      [] Domain(u) = "microsoft" ->
           IF "365" \in u.has
           THEN [NewProduct EXCEPT !.product_name = "Microsoft 365",
                                   !.main_category = "Software",
                                   !.sub_category = "Productivity Suite"]
           ELSE IF "surface" \in u.has
           THEN [NewProduct EXCEPT !.product_name = "Surface",
                                   !.main_category = "Computers"]
           ELSE IF "windows" \in u.has
           THEN [NewProduct EXCEPT !.product_name = "Windows",
                                   !.main_category = "Software",
                                   !.sub_category = "Operating System"]
           ELSE NewProduct
      [] Domain(u) = "samsung" ->
           IF "galaxy" \in u.has /\ "s23" \in u.has
           THEN [NewProduct EXCEPT !.product_name = "Galaxy S23 Ultra",
                                   !.main_category = "Smartphones",
                                   !.sub_category = "Android Phones"]
           ELSE NewProduct
      [] OTHER -> NewProduct

\* description and features of one product, from the elements found for it
Describe(p, desc, features) ==
    [p EXCEPT !.product_description =
                  IF desc # None /\ desc[1].valid
                  THEN [text |-> desc[1].text, len |-> desc[1].len] ELSE @,
              !.features = @ \o ValidTexts(Prefix(features, 5))]

\* mutant: the product is appended whether or not the URL gave it a name
DomainProductsUnnamed(page, u, c) ==
    LET p == Describe(NamedProduct(u), page.product_desc, page.features) IN
    [c EXCEPT !.products = Append(@, [p EXCEPT !.url = u.text])]

\* _extract_apple_product, _extract_microsoft_product, _extract_samsung_product
DomainProducts(page, u, c) ==
    LET p == Describe(NamedProduct(u), page.product_desc, page.features) IN
    IF p.product_name # ""
    THEN [c EXCEPT !.products = Append(@, [p EXCEPT !.url = u.text])]
    ELSE c

\* _extract_generic_product: the loop over product_sections[:2]
RECURSIVE GenericProducts(_, _, _)
GenericProducts(sections, u, prods) ==
    IF sections = <<>> THEN prods
    ELSE LET sec == Head(sections)
             named == sec.heading # None /\ sec.heading[1].valid
             p == Describe([NewProduct EXCEPT !.product_name = sec.heading[1].text],
                           sec.desc, sec.features)
         IN GenericProducts(Tail(sections), u,
                IF named THEN Append(prods, [p EXCEPT !.url = u.text]) ELSE prods)

\* ProductExtractor.extract
ProductExtract(page, u, c) ==
    IF Domain(u) = "generic"
    THEN [c EXCEPT !.products = GenericProducts(Prefix(page.sections, 2), u, @)]
    ELSE DomainProducts(page, u, c)

\* format_for_sheets: product_info of the products after the first
AdditionalProducts(c) ==
    [i \in 1 .. (IF c.products = <<>> THEN 0 ELSE Len(c.products) - 1) |->
        [name |-> c.products[i + 1].product_name,
         category |-> c.products[i + 1].main_category,
         price |-> PriceText(c.products[i + 1])]]

\* mutant: the product description goes into the row uncut
FormatForSheetsUncut(c) ==
    LET has == c.products # <<>>
        p == IF has THEN c.products[1] ELSE NewProduct
    IN << c.url, c.company_name, c.company_type,
          CutDescription(c.company_description),
          Join("; ", c.emails), Join("; ", c.phones), Join("; ", c.addresses),
          p.product_name, p.main_category, PriceText(p),
          p.product_description,
          Join("; ", Prefix(p.features, 5)),
          Join("; ", Prefix(p.specifications, 3)),
          Join(" | ", AdditionalProducts(c)),
          "now" >>

\* ExtractionService.format_for_sheets: the row of 15 cells; the cells of an
\* absent primary product are those of an empty ProductEntity
FormatForSheets(c) ==
    LET has == c.products # <<>>
        p == IF has THEN c.products[1] ELSE NewProduct
    IN << c.url, c.company_name, c.company_type,
          CutDescription(c.company_description),
          Join("; ", c.emails), Join("; ", c.phones), Join("; ", c.addresses),
          p.product_name, p.main_category, PriceText(p),
          CutDescription(p.product_description),
          Join("; ", Prefix(p.features, 5)),
          Join("; ", Prefix(p.specifications, 3)),
          Join(" | ", AdditionalProducts(c)),
          "now" >>

\* GoogleSheetsIntegration.setup_headers
Headers ==
    << "URL", "Company Name", "Company Type", "Company Description",
       "Contact Emails", "Contact Phones", "Contact Addresses", "Product Name",
       "Product Category", "Product Price", "Product Description",
       "Product Features", "Product Specifications", "Additional Products",
       "Extraction Date" >>

-----------------------------------------------------------------------------
(* Text functions, character by character *)

Digits == {"0", "1", "2", "3", "4", "5", "6", "7", "8", "9"}

UpperLetters ==
    << "A","B","C","D","E","F","G","H","I","J","K","L","M","N","O","P","Q",
       "R","S","T","U","V","W","X","Y","Z" >>

LowerLetters ==
    << "a","b","c","d","e","f","g","h","i","j","k","l","m","n","o","p","q",
       "r","s","t","u","v","w","x","y","z" >>

Letters ==
    {UpperLetters[i] : i \in DOMAIN UpperLetters}
        \cup {LowerLetters[i] : i \in DOMAIN LowerLetters}

\* \s and str.split(): whitespace
IsSpace(c) == c \in {" ", "\t", "\n", "\r"}

\* \w
IsWord(c) == c \in Letters \cup Digits \cup {"_"}

\* str.lower(), one character
LowerChar(c) ==
    IF \E i \in DOMAIN UpperLetters : UpperLetters[i] = c
    THEN LowerLetters[CHOOSE i \in DOMAIN UpperLetters : UpperLetters[i] = c]
    ELSE c

\* str.lower()
Lower(s) == [i \in DOMAIN s |-> LowerChar(s[i])]

\* w in s
Contains(s, w) ==
    \E i \in 1 .. (Len(s) - Len(w) + 1) : SubSeq(s, i, i + Len(w) - 1) = w

\* the end of the longest run of non-blank characters that starts at i
TokenEnd(s, i) ==
    CHOOSE j \in (i - 1) .. Len(s) :
        /\ \A k \in i .. j : ~IsSpace(s[k])
        /\ j = Len(s) \/ IsSpace(s[j + 1])

\* text.split()
RECURSIVE Split(_)
Split(s) ==
    IF s = <<>> THEN <<>>
    ELSE IF IsSpace(Head(s)) THEN Split(Tail(s))
    ELSE << SubSeq(s, 1, TokenEnd(s, 1)) >>
            \o Split(SubSeq(s, TokenEnd(s, 1) + 1, Len(s)))

\* ' '.join(tokens)
RECURSIVE JoinSpace(_)
JoinSpace(tokens) ==
    IF tokens = <<>> THEN <<>>
    ELSE IF Len(tokens) = 1 THEN tokens[1]
    ELSE tokens[1] \o <<" ">> \o JoinSpace(Tail(tokens))

\* the characters [^\w\s\-.,;:\'\"$£€()+] leaves alone
Keep(c) ==
    \/ IsWord(c)
    \/ IsSpace(c)
    \/ c \in {"-", ".", ",", ";", ":", "'", "\"", "$", "£", "€", "(", ")", "+"}

\* str.strip()
Strip(s) ==
    LET solid == {i \in DOMAIN s : ~IsSpace(s[i])} IN
    IF solid = {} THEN <<>>
    ELSE SubSeq(s, CHOOSE i \in solid : \A j \in solid : i <= j,
                   CHOOSE i \in solid : \A j \in solid : j <= i)

\* clean_text
clean_text(text) == Strip(SelectSeq(JoinSpace(Split(text)), Keep))

\* is_valid_text: nav_words
NavWords ==
    { << "m","e","n","u" >>,
      << "s","e","a","r","c","h" >>,
      << "c","l","o","s","e" >>,
      << "o","p","e","n" >>,
      << "n","e","x","t" >>,
      << "p","r","e","v","i","o","u","s" >>,
      << "s","u","b","m","i","t" >> }

\* mutant: the navigation words are looked for in the text as written
is_valid_text_as_written(text) ==
    IF Len(text) < 10 THEN FALSE
    ELSE IF Len(Split(text)) < 2 THEN FALSE
    ELSE IF \E w \in NavWords : Contains(text, w) THEN FALSE
    ELSE TRUE

\* is_valid_text
is_valid_text(text) ==
    IF Len(text) < 10 THEN FALSE
    ELSE IF Len(Split(text)) < 2 THEN FALSE
    ELSE IF \E w \in NavWords : Contains(Lower(text), w) THEN FALSE
    ELSE TRUE

\* the end of the longest run of characters of cls that starts at i
RunEnd(s, i, cls) ==
    CHOOSE j \in (i - 1) .. Len(s) :
        /\ \A k \in i .. j : s[k] \in cls
        /\ j = Len(s) \/ s[j + 1] \notin cls

\* email_pattern: [a-zA-Z0-9._%+-]
LocalChars == Letters \cup Digits \cup {".", "_", "%", "+", "-"}

\* email_pattern: [a-zA-Z0-9.-]
DomainChars == Letters \cup Digits \cup {".", "-"}

\* email_pattern matched at i: the index of the last character of the match,
\* 0 when there is none.  The local part is the whole run before the "@";
\* the greedy domain part gives back characters up to the last "." that two
\* letters follow, and the last label takes every letter after it.
MatchEmail(s, i) ==
    LET a == RunEnd(s, i, LocalChars)
        d == RunEnd(s, a + 2, DomainChars)
        dots == {k \in (a + 3) .. (d - 2) :
                    s[k] = "." /\ s[k + 1] \in Letters /\ s[k + 2] \in Letters}
    IN IF a < i \/ a + 1 > Len(s) THEN 0
       ELSE IF s[a + 1] # "@" \/ dots = {} THEN 0
       ELSE RunEnd(s, (CHOOSE k \in dots : \A j \in dots : j <= k) + 1, Letters)

\* re.findall(email_pattern, content), scanning from i
RECURSIVE FindEmails(_, _)
FindEmails(s, i) ==
    IF i > Len(s) THEN <<>>
    ELSE IF MatchEmail(s, i) = 0 THEN FindEmails(s, i + 1)
    ELSE << SubSeq(s, i, MatchEmail(s, i)) >>
            \o FindEmails(s, MatchEmail(s, i) + 1)

\* the skip list of ContactExtractor.extract
SkipWords ==
    { << "e","x","a","m","p","l","e" >>,
      << "t","e","s","t" >>,
      << "u","s","e","r" >>,
      << "e","m","a","i","l" >> }

\* mutant: no address is skipped
SkippedNever(email) == FALSE

\* any(skip in email.lower() for skip in [...])
Skipped(email) == \E w \in SkipWords : Contains(Lower(email), w)

\* ContactExtractor.extract: the set valid_emails of a content
valid_emails(text) ==
    LET emails == FindEmails(text, 1) IN
    {Lower(emails[k]) :
        k \in {j \in DOMAIN emails :
                  /\ Contains(emails[j], <<"@">>)
                  /\ Contains(emails[j], <<".">>)
                  /\ ~Skipped(emails[j])}}

\* phone_pattern: [-.\s]
Separators == {"-", ".", " ", "\t", "\n", "\r"}

\* an optional character of cls at p: the position after it
Optional(s, p, cls) == IF p <= Len(s) /\ s[p] \in cls THEN p + 1 ELSE p

\* \d{n} at p
DigitsAt(s, p, n) ==
    /\ p + n - 1 <= Len(s)
    /\ \A k \in p .. (p + n - 1) : s[k] \in Digits

\* phone_pattern matched at i: the index of the last character of the match,
\* 0 when there is none.  No optional part can be given back: what follows it
\* in the pattern never matches the character the part matches.
MatchPhone(s, i) ==
    LET p0 == IF i + 1 <= Len(s) /\ s[i] = "+" /\ s[i + 1] = "1"
              THEN Optional(s, i + 2, Separators) ELSE i
        p1 == Optional(s, p0, {"("})
        p2 == Optional(s, p1 + 3, {")"})
        p3 == Optional(s, p2, Separators)
        p4 == Optional(s, p3 + 3, Separators)
    IN IF ~DigitsAt(s, p1, 3) THEN 0
       ELSE IF ~DigitsAt(s, p3, 3) THEN 0
       ELSE IF ~DigitsAt(s, p4, 4) THEN 0
       ELSE p4 + 3

\* re.findall(phone_pattern, content), scanning from i
RECURSIVE FindPhones(_, _)
FindPhones(s, i) ==
    IF i > Len(s) THEN <<>>
    ELSE IF MatchPhone(s, i) = 0 THEN FindPhones(s, i + 1)
    ELSE << SubSeq(s, i, MatchPhone(s, i)) >>
            \o FindPhones(s, MatchPhone(s, i) + 1)

\* [-.\s()] of the cleaning step
Removed(c) == c \in Separators \cup {"(", ")"}

\* re.sub(r'[-.\s()]', '', phone)
CleanPhone(phone) == SelectSeq(phone, LAMBDA c : ~Removed(c))

\* ContactExtractor.extract: the set valid_phones of a content
valid_phones(text) ==
    LET phones == FindPhones(text, 1) IN
    {NormalizePhone(CleanPhone(phones[k])) :
        k \in {j \in DOMAIN phones : Len(CleanPhone(phones[j])) >= 10}}

-----------------------------------------------------------------------------
(* Exceptions.  str(e) is the message an exception carries; a RuntimeError *)
(* raised without arguments has the empty message.                         *)

ExcClasses == {"RequestException", "RuntimeError"}

IsInstance(e, cls) == cls = "Exception" \/ e = cls

StrOf(e) == IF e = "RequestException" THEN "connection refused" ELSE ""

\* fetch_content: except requests.RequestException
FetchCatches(e) == IsInstance(e, "RequestException")

\* mutant: add_row without its try/except
AddRowCatchesNothing(e) == FALSE

\* add_row: except Exception
AddRowCatches(e) == IsInstance(e, "Exception")

\* mutant: process_url catches requests.RequestException only
TopCatchesRequestOnly(e) == IsInstance(e, "RequestException")

\* process_url: except Exception
TopCatches(e) == IsInstance(e, "Exception")

-----------------------------------------------------------------------------
(* Floating point.  Times are counted in ticks of 2^-MantBits seconds, the  *)
(* resolution of random.random(); a float keeps MantBits significant bits,  *)
(* and a sum is rounded to the nearest float, ties to even.                 *)

TicksPerSecond == Pow2(MantBits)

\* random.uniform(0, 1) is 0 + (1 - 0) * random.random(), a value in [0, 1)
Jitters == 0 .. (TicksPerSecond - 1)

\* x rounded to the nearest multiple of q, ties to the even multiple
RoundHalfEven(x, q) ==
    LET n == x \div q
        r == x - n * q
    IN IF 2 * r < q THEN n * q
       ELSE IF 2 * r > q THEN (n + 1) * q
       ELSE IF n % 2 = 0 THEN n * q ELSE (n + 1) * q

\* mutant: the exponent counts attempts from 1
SleepTimeOneBased(a, jitter) ==
    RoundHalfEven(Pow2(a + 1) * TicksPerSecond + jitter, Pow2(a + 2))

\* sleep_time = (2 ** attempt) + random.uniform(0, 1), in ticks: the exact
\* sum lies in [2^attempt, 2^(attempt+1)) seconds, where floats are
\* 2^(attempt+1) ticks apart
SleepTime(a, jitter) ==
    RoundHalfEven(Pow2(a) * TicksPerSecond + jitter, Pow2(a + 1))

WholeSeconds(t) == t \div TicksPerSecond

-----------------------------------------------------------------------------
(* ExtractionService *)

\* mutant: validate_url tests the scheme alone
validate_url_scheme_only(u) == u.scheme # ""

\* validate_url: all([result.scheme, result.netloc])
validate_url(u) == u.scheme # "" /\ u.netloc # ""

\* the status codes the server answers with
Statuses == {200, 204, 503}

\* mutant: any 2xx status counts as success
IsOkAny2xx(st) == st \div 100 = 2

\* response.status_code == 200
IsOk(st) == st = 200

\* mutant: the loop runs once more than max_retries
MoreAttemptsOffByOne(a) == a <= MAX_RETRIES

\* mutant: the loop never gives up
MoreAttemptsForEver(a) == TRUE

\* for attempt in range(max_retries)
MoreAttempts(a) == a < MAX_RETRIES

\* "not content" / "not extracted_company": None and the empty text are falsy
Falsy(c) == c = None \/ c[1].len = 0

ErrorEntry(category, withTrace) ==
    [level |-> "error", tag |-> category, id |-> extraction_id,
     url |-> url.text, trace |-> withTrace]

OperationEntry(st) ==
    [level |-> "operation", tag |-> st, id |-> extraction_id,
     url |-> url.text, trace |-> FALSE]

Failure(parts) == [success |-> FALSE, error |-> parts]

Success(c, d) == [success |-> TRUE, data |-> ToDict(c), duration_ms |-> d]

\* ExtractionState.update_progress
update_progress(p, s) ==
    /\ progress' = p
    /\ status' = s
    /\ updates' = Append(updates, <<p, s>>)

\* an exception e leaves the current statement
Raise(e) ==
    /\ exc' = Some(e)
    /\ pc' = "raised"

\* a task created on the event loop for process_url(u, id), not yet started
NewTask(u) == [pc |-> "scheduled", attempt |-> 0, url |-> u, result |-> "none"]

Tasks == 1 .. MaxTasks

\* no task was created on the event loop
NoTasksRunning ==
    /\ running = 0
    /\ tasks = [t \in Tasks |-> NewTask(NoSchemeUrl)]

\* no GoogleSheetsIntegration was constructed
SheetUntouched ==
    /\ sheet = <<>>
    /\ sheet_pc = "new"
    /\ sheet_calls = <<>>

Init ==
    /\ pc = "idle"
    /\ calls = 0
    /\ global_stats = [processed |-> 0, success |-> 0, fail |-> 0]
    /\ sheet_rows = 0
    /\ url = NoSchemeUrl
    /\ extraction_id = 0
    /\ progress = 0
    /\ status = "Starting"
    /\ updates = <<>>
    /\ attempt = 0
    /\ gets = 0
    /\ response = None
    /\ sleeps = <<>>
    /\ content = None
    /\ company = None
    /\ trace = <<>>
    /\ sink_calls = <<>>
    /\ log = <<>>
    /\ exc = None
    /\ faulted = FALSE
    /\ result = None
    /\ row_sent = None
    /\ text_fn = "none"
    /\ text_arg = <<>>
    /\ text_ret = <<>>
    /\ NoTasksRunning
    /\ SheetUntouched

\* the caller awaits process_url(u, id): entry, ExtractionState(), first update
Call(u) ==
    /\ pc \in {"idle", "returned"}
    /\ calls < MaxRuns
    /\ calls' = calls + 1
    /\ url' = u
    /\ extraction_id' = calls + 1
    /\ progress' = 5
    /\ status' = "Validating URL"
    /\ updates' = << <<5, "Validating URL">> >>
    /\ attempt' = 0
    /\ gets' = 0
    /\ response' = None
    /\ sleeps' = <<>>
    /\ content' = None
    /\ company' = None
    /\ trace' = <<>>
    /\ sink_calls' = <<>>
    /\ log' = <<>>
    /\ exc' = None
    /\ faulted' = FALSE
    /\ result' = None
    /\ pc' = "validate"
    /\ UNCHANGED <<global_stats, sheet_rows>>
    /\ row_sent' = None
    /\ UNCHANGED <<textvars, loopvars, sheetvars>>

\* process_url: the validation branch; an exception raised by urlparse is
\* caught inside validate_url, which then answers False
Validate ==
    /\ pc = "validate"
    /\ \E raised \in BOOLEAN :
          IF ~raised /\ validate_url(url)
          THEN /\ update_progress(10, "Starting extraction")
               /\ pc' = "extract_data"
               /\ UNCHANGED <<log, result>>
          ELSE /\ log' = Append(log, ErrorEntry("ValidationError", FALSE))
               /\ result' = Some(Failure(<<"Invalid URL format">>))
               /\ pc' = "returned"
               /\ UNCHANGED <<progress, status, updates>>
    /\ UNCHANGED <<calls, global_stats, sheet_rows, url, extraction_id, attempt,
                   gets, response, sleeps, content, company, trace, sink_calls,
                   exc, faulted>>
    /\ UNCHANGED <<row_sent, textvars, loopvars, sheetvars>>

\* mutant: extract_data without its first update_progress
EnterExtractDataNoUpdate ==
    /\ pc = "extract_data"
    /\ attempt' = 0
    /\ pc' = "fetch"
    /\ UNCHANGED <<calls, global_stats, sheet_rows, url, extraction_id, gets,
                   response, sleeps, content, company, trace, sink_calls, log,
                   exc, faulted, result, progress, status, updates>>
    /\ UNCHANGED <<row_sent, textvars, loopvars, sheetvars>>

\* mutant: extract_data starts the progress again from 0
EnterExtractDataRestart ==
    /\ pc = "extract_data"
    /\ update_progress(0, "Fetching website content")
    /\ attempt' = 0
    /\ pc' = "fetch"
    /\ UNCHANGED <<calls, global_stats, sheet_rows, url, extraction_id, gets,
                   response, sleeps, content, company, trace, sink_calls, log,
                   exc, faulted, result>>
    /\ UNCHANGED <<row_sent, textvars, loopvars, sheetvars>>

\* extract_data: entry, up to the call of fetch_content
EnterExtractData ==
    /\ pc = "extract_data"
    /\ update_progress(15, "Fetching website content")
    /\ attempt' = 0
    /\ pc' = "fetch"
    /\ UNCHANGED <<calls, global_stats, sheet_rows, url, extraction_id, gets,
                   response, sleeps, content, company, trace, sink_calls, log,
                   exc, faulted, result>>
    /\ UNCHANGED <<row_sent, textvars, loopvars, sheetvars>>

\* fetch_content: one requests.get of the loop and what follows it, up to
\* the backoff
FetchGet ==
    /\ pc = "fetch"
    /\ MoreAttempts(attempt)
    /\ gets' = gets + 1
    /\ \/ \E st \in Statuses :
          \E body \in (IF st = 200 THEN Bodies ELSE {EmptyPage}) :
            /\ response' = Some([status_code |-> st, text |-> body])
            /\ IF IsOk(st)
               THEN /\ content' = Some(body)
                    /\ pc' = "fetched"
                    /\ UNCHANGED log
               ELSE /\ log' = Append(log, ErrorEntry("FetchError", FALSE))
                    /\ pc' = "backoff"
                    /\ UNCHANGED content
            /\ UNCHANGED exc
       \/ \E e \in ExcClasses :
            /\ response' = None
            /\ IF FetchCatches(e)
               THEN /\ log' = Append(log, ErrorEntry("FetchError", FALSE))
                    /\ pc' = "backoff"
                    /\ UNCHANGED <<content, exc>>
               ELSE /\ Raise(e)
                    /\ UNCHANGED <<content, log>>
    /\ UNCHANGED <<calls, global_stats, sheet_rows, url, extraction_id, progress,
                   status, updates, attempt, sleeps, company, trace, sink_calls,
                   faulted, result>>
    /\ UNCHANGED <<row_sent, textvars, loopvars, sheetvars>>

\* fetch_content: the backoff sleep that ends a failed iteration
Backoff ==
    /\ pc = "backoff"
    /\ \E jitter \in Jitters :
          sleeps' = Append(sleeps, SleepTime(attempt, jitter))
    /\ attempt' = attempt + 1
    /\ pc' = "fetch"
    /\ UNCHANGED <<calls, global_stats, sheet_rows, url, extraction_id, progress,
                   status, updates, gets, response, content, company, trace,
                   sink_calls, log, exc, faulted, result>>
    /\ UNCHANGED <<row_sent, textvars, loopvars, sheetvars>>

\* fetch_content: the loop is over, return None
FetchExhausted ==
    /\ pc = "fetch"
    /\ ~MoreAttempts(attempt)
    /\ content' = None
    /\ pc' = "fetched"
    /\ UNCHANGED <<calls, global_stats, sheet_rows, url, extraction_id, progress,
                   status, updates, attempt, gets, response, sleeps, company,
                   trace, sink_calls, log, exc, faulted, result>>
    /\ UNCHANGED <<row_sent, textvars, loopvars, sheetvars>>

\* extract_data after fetch_content: "if not content: return None", which
\* process_url turns into a failure; otherwise the company record is created
AfterFetch ==
    /\ pc = "fetched"
    /\ IF Falsy(content)
       THEN /\ log' = Append(log, OperationEntry("Failed"))
            /\ result' = Some(Failure(<<"Failed to extract data from URL">>))
            /\ pc' = "returned"
            /\ UNCHANGED <<progress, status, updates, company>>
       ELSE /\ company' = Some(NewCompany(url))
            /\ update_progress(25, "Extracting company information")
            /\ pc' = "company"
            /\ UNCHANGED <<log, result>>
    /\ UNCHANGED <<calls, global_stats, sheet_rows, url, extraction_id, attempt,
                   gets, response, sleeps, content, trace, sink_calls, exc,
                   faulted>>
    /\ UNCHANGED <<row_sent, textvars, loopvars, sheetvars>>

\* extract_data: CompanyExtractor, then the next update
ExtractCompany ==
    /\ pc = "company"
    /\ \/ /\ company' = Some(CompanyExtract(content[1], url, company[1]))
          /\ trace' = Append(trace, "company")
          /\ update_progress(40, "Extracting contact information")
          /\ pc' = "contact"
          /\ UNCHANGED <<exc, faulted>>
       \/ \E e \in ExcClasses :
            /\ Raise(e)
            /\ faulted' = TRUE
            /\ UNCHANGED <<company, trace, progress, status, updates>>
    /\ UNCHANGED <<calls, global_stats, sheet_rows, url, extraction_id, attempt,
                   gets, response, sleeps, content, sink_calls, log, result>>
    /\ UNCHANGED <<row_sent, textvars, loopvars, sheetvars>>

\* mutant: the row is formatted and sent before the product extractor ran
ExtractContactThenExport ==
    /\ pc = "contact"
    /\ \E found \in EmailLists(ValidEmails(content[1])) :
       \E kept \in PhoneLists(ValidPhones(content[1])) :
          company' = Some(ContactExtract(content[1], url, company[1],
                                         found, kept))
    /\ trace' = Append(trace, "contact")
    /\ update_progress(60, "Discovering product information")
    /\ pc' = "export"
    /\ UNCHANGED <<calls, global_stats, sheet_rows, url, extraction_id, attempt,
                   gets, response, sleeps, content, sink_calls, log, result,
                   exc, faulted>>
    /\ UNCHANGED <<row_sent, textvars, loopvars, sheetvars>>

\* extract_data: ContactExtractor, then the next update
ExtractContact ==
    /\ pc = "contact"
    /\ \/ /\ \E found \in EmailLists(ValidEmails(content[1])) :
             \E kept \in PhoneLists(ValidPhones(content[1])) :
                company' = Some(ContactExtract(content[1], url, company[1],
                                               found, kept))
          /\ trace' = Append(trace, "contact")
          /\ update_progress(60, "Discovering product information")
          /\ pc' = "product"
          /\ UNCHANGED <<exc, faulted>>
       \/ \E e \in ExcClasses :
            /\ Raise(e)
            /\ faulted' = TRUE
            /\ UNCHANGED <<company, trace, progress, status, updates>>
    /\ UNCHANGED <<calls, global_stats, sheet_rows, url, extraction_id, attempt,
                   gets, response, sleeps, content, sink_calls, log, result>>
    /\ UNCHANGED <<row_sent, textvars, loopvars, sheetvars>>

\* extract_data: ProductExtractor
ExtractProduct ==
    /\ pc = "product"
    /\ \/ /\ company' = Some(ProductExtract(content[1], url, company[1]))
          /\ trace' = Append(trace, "product")
          /\ pc' = "export"
          /\ UNCHANGED <<exc, faulted>>
       \/ \E e \in ExcClasses :
            /\ Raise(e)
            /\ faulted' = TRUE
            /\ UNCHANGED <<company, trace>>
    /\ UNCHANGED <<calls, global_stats, sheet_rows, url, extraction_id, progress,
                   status, updates, attempt, gets, response, sleeps, content,
                   sink_calls, log, result>>
    /\ UNCHANGED <<row_sent, textvars, loopvars, sheetvars>>

\* extract_data: format_for_sheets and add_row; sheet.append_row stores the
\* row or raises
Export ==
    /\ pc = "export"
    /\ \/ /\ row_sent' = Some(FormatForSheets(company[1]))
          /\ trace' = Append(trace, "export")
          /\ \/ /\ sink_calls' = Append(sink_calls, "stored")
                /\ sheet_rows' = sheet_rows + 1
                /\ pc' = "finalize"
                /\ UNCHANGED <<exc, faulted>>
             \/ \E e \in ExcClasses :
                  /\ sink_calls' = Append(sink_calls, "raised")
                  /\ UNCHANGED sheet_rows
                  /\ IF AddRowCatches(e)
                     THEN /\ pc' = "finalize"
                          /\ UNCHANGED <<exc, faulted>>
                     ELSE /\ Raise(e)
                          /\ UNCHANGED faulted
       \/ \E e \in ExcClasses :
            /\ Raise(e)
            /\ faulted' = TRUE
            /\ UNCHANGED <<trace, sink_calls, sheet_rows, row_sent>>
    /\ UNCHANGED <<calls, global_stats, url, extraction_id, progress, status,
                   updates, attempt, gets, response, sleeps, content, company,
                   log, result>>
    /\ UNCHANGED <<textvars, loopvars, sheetvars>>

\* process_url: "Finalize" up to the return; to_dict builds the result
Finalize ==
    /\ pc = "finalize"
    /\ update_progress(100, "Completed")
    /\ log' = Append(log, OperationEntry("Completed"))
    /\ global_stats' = [global_stats EXCEPT !.processed = @ + 1,
                                            !.success = @ + 1]
    /\ \/ \E d \in 0 .. MaxDuration :
            /\ result' = Some(Success(company[1], d))
            /\ pc' = "returned"
            /\ UNCHANGED <<exc, faulted>>
       \/ \E e \in ExcClasses :
            /\ Raise(e)
            /\ faulted' = TRUE
            /\ UNCHANGED result
    /\ UNCHANGED <<calls, sheet_rows, url, extraction_id, attempt, gets, response,
                   sleeps, content, company, trace, sink_calls>>
    /\ UNCHANGED <<row_sent, textvars, loopvars, sheetvars>>

\* mutant: the except clause returns its failure without logging it
HandlerSilent ==
    /\ pc = "raised"
    /\ global_stats' = [global_stats EXCEPT !.fail = @ + 1]
    /\ result' = Some(Failure(<<"Error processing URL: ", StrOf(exc[1])>>))
    /\ pc' = "returned"
    /\ UNCHANGED <<calls, sheet_rows, url, extraction_id, progress, status,
                   updates, attempt, gets, response, sleeps, content, company,
                   trace, sink_calls, exc, faulted, log>>
    /\ UNCHANGED <<row_sent, textvars, loopvars, sheetvars>>

\* process_url: the except clause
Handler ==
    /\ pc = "raised"
    /\ IF TopCatches(exc[1])
       THEN /\ log' = Append(log, ErrorEntry("ProcessingError", TRUE))
            /\ global_stats' = [global_stats EXCEPT !.fail = @ + 1]
            /\ result' = Some(Failure(<<"Error processing URL: ", StrOf(exc[1])>>))
            /\ pc' = "returned"
       ELSE /\ pc' = "escaped"
            /\ UNCHANGED <<log, global_stats, result>>
    /\ UNCHANGED <<calls, sheet_rows, url, extraction_id, progress, status,
                   updates, attempt, gets, response, sleeps, content, company,
                   trace, sink_calls, exc, faulted>>
    /\ UNCHANGED <<row_sent, textvars, loopvars, sheetvars>>

Next ==
    \/ \E u \in URLs : Call(u)
    \/ Validate
    \/ EnterExtractData
    \/ FetchGet
    \/ Backoff
    \/ FetchExhausted
    \/ AfterFetch
    \/ ExtractCompany
    \/ ExtractContact
    \/ ExtractProduct
    \/ Export
    \/ Finalize
    \/ Handler

Spec == Init /\ [][Next]_vars

\* every call runs to its end: nothing in the code suspends a call for ever
FairSpec == Spec /\ WF_vars(Next)

\* The extraction stages alone: the first call, at the point where the first
\* GET has answered 200 with a body and extract_data has made the company
\* record
InitExtract ==
    \E in \in LabInputs :
        /\ pc = "company"
        /\ calls = 1
        /\ global_stats = [processed |-> 0, success |-> 0, fail |-> 0]
        /\ sheet_rows = 0
        /\ url = in[1]
        /\ extraction_id = 1
        /\ progress = 25
        /\ status = "Extracting company information"
        /\ updates = << <<5, "Validating URL">>, <<10, "Starting extraction">>,
                        <<15, "Fetching website content">>,
                        <<25, "Extracting company information">> >>
        /\ attempt = 0
        /\ gets = 1
        /\ response = Some([status_code |-> 200, text |-> in[2]])
        /\ sleeps = <<>>
        /\ content = Some(in[2])
        /\ company = Some(NewCompany(in[1]))
        /\ trace = <<>>
        /\ sink_calls = <<>>
        /\ log = <<>>
        /\ exc = None
        /\ faulted = FALSE
        /\ result = None
        /\ row_sent = None
        /\ text_fn = "none"
        /\ text_arg = <<>>
        /\ text_ret = <<>>
        /\ NoTasksRunning
        /\ SheetUntouched

NextExtract ==
    \/ ExtractCompany
    \/ ExtractContact
    \/ ExtractProduct
    \/ Export
    \/ Finalize
    \/ Handler

ExtractSpec == InitExtract /\ [][NextExtract]_vars

\* The text functions on their own: no call is running and one of them is
\* applied to a text
InitText ==
    /\ pc = "idle"
    /\ calls = 0
    /\ global_stats = [processed |-> 0, success |-> 0, fail |-> 0]
    /\ sheet_rows = 0
    /\ url = NoSchemeUrl
    /\ extraction_id = 0
    /\ progress = 0
    /\ status = "Starting"
    /\ updates = <<>>
    /\ attempt = 0
    /\ gets = 0
    /\ response = None
    /\ sleeps = <<>>
    /\ content = None
    /\ company = None
    /\ trace = <<>>
    /\ sink_calls = <<>>
    /\ log = <<>>
    /\ exc = None
    /\ faulted = FALSE
    /\ result = None
    /\ row_sent = None
    /\ text_fn = "none"
    /\ text_arg \in TextInputs
    /\ text_ret = <<>>
    /\ NoTasksRunning
    /\ SheetUntouched

\* clean_text(text)
ApplyCleanText ==
    /\ text_fn = "none"
    /\ text_fn' = "clean_text"
    /\ text_ret' = clean_text(text_arg)
    /\ UNCHANGED <<text_arg, runvars, loopvars, sheetvars>>

\* clean_text applied to its own result
ApplyCleanTextAgain ==
    /\ text_fn = "clean_text"
    /\ text_fn' = "clean_text twice"
    /\ text_ret' = clean_text(text_ret)
    /\ UNCHANGED <<text_arg, runvars, loopvars, sheetvars>>

\* is_valid_text(text)
ApplyIsValidText ==
    /\ text_fn = "none"
    /\ text_fn' = "is_valid_text"
    /\ text_ret' = is_valid_text(text_arg)
    /\ UNCHANGED <<text_arg, runvars, loopvars, sheetvars>>

\* ContactExtractor.extract: the email part
ApplyValidEmails ==
    /\ text_fn = "none"
    /\ text_fn' = "valid_emails"
    /\ text_ret' = valid_emails(text_arg)
    /\ UNCHANGED <<text_arg, runvars, loopvars, sheetvars>>

\* ContactExtractor.extract: the phone part
ApplyValidPhones ==
    /\ text_fn = "none"
    /\ text_fn' = "valid_phones"
    /\ text_ret' = valid_phones(text_arg)
    /\ UNCHANGED <<text_arg, runvars, loopvars, sheetvars>>

NextText ==
    \/ ApplyCleanText
    \/ ApplyCleanTextAgain
    \/ ApplyIsValidText
    \/ ApplyValidEmails
    \/ ApplyValidPhones

TextSpec == InitText /\ [][NextText]_vars

\* Several process_url coroutines as tasks of one event loop.  The loop runs
\* one coroutine at a time and picks another task only when the running one
\* suspends or returns; process_url awaits its own coroutines only and calls
\* requests.get and time.sleep, which hold the thread, so it never suspends.
callvars == <<pc, calls, sheet_rows, url, extraction_id, progress, status,
              updates, attempt, gets, response, sleeps, content, company,
              trace, sink_calls, log, exc, faulted, result, row_sent>>

InitLoop ==
    /\ pc = "idle"
    /\ calls = 0
    /\ global_stats = [processed |-> 0, success |-> 0, fail |-> 0]
    /\ sheet_rows = 0
    /\ url = NoSchemeUrl
    /\ extraction_id = 0
    /\ progress = 0
    /\ status = "Starting"
    /\ updates = <<>>
    /\ attempt = 0
    /\ gets = 0
    /\ response = None
    /\ sleeps = <<>>
    /\ content = None
    /\ company = None
    /\ trace = <<>>
    /\ sink_calls = <<>>
    /\ log = <<>>
    /\ exc = None
    /\ faulted = FALSE
    /\ result = None
    /\ row_sent = None
    /\ text_fn = "none"
    /\ text_arg = <<>>
    /\ text_ret = <<>>
    /\ running = 0
    /\ tasks \in [Tasks -> {NewTask(u) : u \in URLs}]
    /\ SheetUntouched

\* the coroutine of task t returns r: the thread goes back to the loop
TaskReturns(t, r) ==
    /\ tasks' = [tasks EXCEPT ![t].pc = "returned", ![t].result = r]
    /\ running' = 0

\* the event loop starts a scheduled task: entry of process_url
LoopStart(t) ==
    /\ running = 0
    /\ tasks[t].pc = "scheduled"
    /\ running' = t
    /\ tasks' = [tasks EXCEPT ![t].pc = "validate"]
    /\ UNCHANGED <<global_stats, callvars, textvars, sheetvars>>

\* process_url: the validation branch
TaskValidate(t) ==
    /\ running = t
    /\ tasks[t].pc = "validate"
    /\ IF validate_url(tasks[t].url)
       THEN /\ tasks' = [tasks EXCEPT ![t].pc = "fetch"]
            /\ UNCHANGED running
       ELSE TaskReturns(t, "failure")
    /\ UNCHANGED <<global_stats, callvars, textvars, sheetvars>>

\* fetch_content: one requests.get; a 200 with a body leads to the
\* extractors, a 200 without text to the failure return of process_url
TaskGet(t) ==
    /\ running = t
    /\ tasks[t].pc = "fetch"
    /\ MoreAttempts(tasks[t].attempt)
    /\ \E st \in Statuses :
       \E body \in (IF st = 200 THEN Bodies ELSE {EmptyPage}) :
          IF ~IsOk(st)
          THEN /\ tasks' = [tasks EXCEPT ![t].pc = "backoff"]
               /\ UNCHANGED running
          ELSE IF Falsy(Some(body))
          THEN TaskReturns(t, "failure")
          ELSE /\ tasks' = [tasks EXCEPT ![t].pc = "extract"]
               /\ UNCHANGED running
    /\ UNCHANGED <<global_stats, callvars, textvars, sheetvars>>

\* fetch_content: time.sleep(sleep_time); the thread stays with the task
TaskSleep(t) ==
    /\ running = t
    /\ tasks[t].pc = "backoff"
    /\ tasks' = [tasks EXCEPT ![t].pc = "fetch", ![t].attempt = @ + 1]
    /\ UNCHANGED running
    /\ UNCHANGED <<global_stats, callvars, textvars, sheetvars>>

\* fetch_content returns None and process_url its failure
TaskExhausted(t) ==
    /\ running = t
    /\ tasks[t].pc = "fetch"
    /\ ~MoreAttempts(tasks[t].attempt)
    /\ TaskReturns(t, "failure")
    /\ UNCHANGED <<global_stats, callvars, textvars, sheetvars>>

\* the extractors and the end of process_url: the run completes, or an
\* exception reaches the except clause before the counters of the success
\* path were incremented, or after (to_dict raises)
TaskExtract(t) ==
    /\ running = t
    /\ tasks[t].pc = "extract"
    /\ \/ /\ global_stats' = [global_stats EXCEPT !.processed = @ + 1,
                                                  !.success = @ + 1]
          /\ TaskReturns(t, "success")
       \/ /\ global_stats' = [global_stats EXCEPT !.fail = @ + 1]
          /\ TaskReturns(t, "failure")
       \/ /\ global_stats' = [global_stats EXCEPT !.processed = @ + 1,
                                                  !.success = @ + 1,
                                                  !.fail = @ + 1]
          /\ TaskReturns(t, "failure")
    /\ UNCHANGED <<callvars, textvars, sheetvars>>

NextLoop ==
    \E t \in Tasks :
        \/ LoopStart(t)
        \/ TaskValidate(t)
        \/ TaskGet(t)
        \/ TaskSleep(t)
        \/ TaskExhausted(t)
        \/ TaskExtract(t)

LoopSpec == InitLoop /\ [][NextLoop]_vars

-----------------------------------------------------------------------------
(* The sheet on its own: GoogleSheetsIntegration is constructed on a        *)
(* worksheet and a caller then makes add_row and clear_sheet calls, as      *)
(* test_connection does.  Every call of the gspread API either has its      *)
(* effect or raises.                                                        *)

\* the row test_connection adds
TestRow == <<"Test", "Connection", "Successful">>

\* the rows given to add_row: the test row and the row of an extraction
Rows == {TestRow, FormatForSheets(NewCompany(AcmeUrl))}

\* the worksheet the constructor opens: empty, holding headers and a row, or
\* holding rows without headers
InitialSheets == {<<>>, <<Headers, TestRow>>, <<TestRow>>}

\* sheet.append_row: an empty list of values adds no row
AppendRow(sh, r) == IF r = <<>> THEN sh ELSE Append(sh, r)

\* sheet.row_values(1): the cells of the first row, none for an empty sheet
RowValues(sh) == IF sh = <<>> THEN <<>> ELSE sh[1]

Called(op) == sheet_calls' = Append(sheet_calls, op)

InitSheet ==
    /\ pc = "idle"
    /\ calls = 0
    /\ global_stats = [processed |-> 0, success |-> 0, fail |-> 0]
    /\ sheet_rows = 0
    /\ url = NoSchemeUrl
    /\ extraction_id = 0
    /\ progress = 0
    /\ status = "Starting"
    /\ updates = <<>>
    /\ attempt = 0
    /\ gets = 0
    /\ response = None
    /\ sleeps = <<>>
    /\ content = None
    /\ company = None
    /\ trace = <<>>
    /\ sink_calls = <<>>
    /\ log = <<>>
    /\ exc = None
    /\ faulted = FALSE
    /\ result = None
    /\ row_sent = None
    /\ text_fn = "none"
    /\ text_arg = <<>>
    /\ text_ret = <<>>
    /\ NoTasksRunning
    /\ sheet \in InitialSheets
    /\ sheet_pc = "new"
    /\ sheet_calls = <<>>

\* GoogleSheetsIntegration.__init__: authenticate, open, and setup_headers
\* when get_all_values() is empty; an exception leaves no object
Construct ==
    /\ sheet_pc = "new"
    /\ \/ /\ sheet = <<>>
          /\ sheet' = AppendRow(sheet, Headers)
          /\ sheet_pc' = "ready"
          /\ Called("setup_headers")
       \/ /\ sheet # <<>>
          /\ sheet_pc' = "ready"
          /\ Called("no_setup")
          /\ UNCHANGED sheet
       \/ /\ sheet_pc' = "failed"
          /\ Called("raised")
          /\ UNCHANGED sheet
    /\ UNCHANGED <<runvars, textvars, loopvars>>

\* add_row: append_row stores the row, or raises and the exception is printed
AddRow(data) ==
    /\ sheet_pc = "ready"
    /\ Len(sheet_calls) <= MaxSheetCalls
    /\ \/ sheet' = AppendRow(sheet, data)
       \/ UNCHANGED sheet
    /\ Called("add_row")
    /\ UNCHANGED <<sheet_pc, runvars, textvars, loopvars>>

\* mutant: clear_sheet(keep_headers=True) does not write the headers back
ClearSheetDropsHeaders(keep_headers) ==
    /\ sheet_pc = "ready"
    /\ Len(sheet_calls) <= MaxSheetCalls
    /\ \/ /\ sheet' = <<>>
          /\ Called(IF keep_headers THEN "clear_keep" ELSE "clear_all")
       \/ /\ Called("clear_raised")
          /\ UNCHANGED sheet
    /\ UNCHANGED <<sheet_pc, runvars, textvars, loopvars>>

\* clear_sheet: row_values(1), clear and append_row, or clear alone; an
\* exception of either API call escapes to the caller, before the clear or
\* between the clear and the append_row
ClearSheet(keep_headers) ==
    /\ sheet_pc = "ready"
    /\ Len(sheet_calls) <= MaxSheetCalls
    /\ \/ /\ keep_headers
          /\ sheet' = AppendRow(<<>>, RowValues(sheet))
          /\ Called("clear_keep")
       \/ /\ keep_headers
          /\ sheet' = <<>>
          /\ Called("clear_raised")
       \/ /\ ~keep_headers
          /\ sheet' = <<>>
          /\ Called("clear_all")
       \/ /\ Called("clear_raised")
          /\ UNCHANGED sheet
    /\ UNCHANGED <<sheet_pc, runvars, textvars, loopvars>>

NextSheet ==
    \/ Construct
    \/ \E data \in Rows : AddRow(data)
    \/ \E keep_headers \in BOOLEAN : ClearSheet(keep_headers)

SheetSpec == InitSheet /\ [][NextSheet]_vars

-----------------------------------------------------------------------------
(* Properties *)

\* the number of entries of category cat in a log
RECURSIVE CountTag(_, _)
CountTag(l, cat) ==
    IF l = <<>> THEN 0
    ELSE (IF Head(l).tag = cat THEN 1 ELSE 0) + CountTag(Tail(l), cat)

NonEmptyMessage(parts) == \E i \in DOMAIN parts : parts[i] # ""

Returned == pc = "returned"

InvalidUrl == url.scheme = "" \/ url.netloc = ""

\* C1: whatever the URL and whatever exception is raised at whatever stage,
\* no exception leaves process_url, a call in progress has returned nothing,
\* and a call that ended returned exactly one result: success with data and
\* duration_ms, or failure with a non-empty error message.
C1_ExactlyOneResult ==
    /\ pc # "escaped"
    /\ (~Returned) => result = None
    /\ Returned =>
          /\ Len(result) = 1
          /\ IF result[1].success
             THEN DOMAIN result[1] = {"success", "data", "duration_ms"}
             ELSE /\ DOMAIN result[1] = {"success", "error"}
                  /\ NonEmptyMessage(result[1].error)

\* C1 witness: a RuntimeError with an empty message, raised in an extractor or
\* later, was turned into a failure result.
C1_Witness ==
    /\ Returned
    /\ faulted
    /\ exc = Some("RuntimeError")
    /\ ~result[1].success

\* C2: a call whose URL lacks a scheme or a host issues no GET, and a call
\* whose fetch returned None ends there: in both cases the call returns a
\* failure, no extractor has run, no row went to the sink and progress never
\* is 100 / Completed.
C2_TerminalFailuresSkip ==
    LET skipped == /\ trace = <<>>
                   /\ company = None
                   /\ sink_calls = <<>>
                   /\ progress # 100
                   /\ \A i \in DOMAIN updates : updates[i][1] # 100
                   /\ Returned => ~result[1].success
    IN /\ (calls > 0 /\ InvalidUrl) => (gets = 0 /\ skipped)
       /\ (pc \in {"fetched", "returned"} /\ ~InvalidUrl /\ content = None
              /\ exc = None) => skipped

\* C2 witness: a URL with a scheme and no host was turned down.
C2_Witness ==
    /\ Returned
    /\ url = NoHostUrl
    /\ ~result[1].success
    /\ gets = 0

\* C3: when fetch_content returns a body, the GET that produced it is the
\* first one answered with HTTP 200 and the body is that response's text; with
\* k = gets - 1 < MAX_RETRIES failed attempts before it, exactly k FetchError
\* entries were logged and exactly k backoff sleeps were made, one before each
\* of the attempts 2..k+1.
C3_RetryThenSuccess ==
    /\ (pc = "fetch") =>
          /\ Len(sleeps) = gets
          /\ attempt = gets
    /\ (pc = "backoff") =>
          /\ response = None \/ response[1].status_code # 200
          /\ Len(sleeps) = gets - 1
    /\ (pc = "fetched" /\ content # None) =>
          /\ response # None /\ response[1].status_code = 200
          /\ content = Some(response[1].text)
          /\ gets - 1 < MAX_RETRIES
          /\ CountTag(log, "FetchError") = gets - 1
          /\ Len(sleeps) = gets - 1
          /\ Len(log) = gets - 1

\* C3 witness: two failed attempts, then HTTP 200 on the third.
C3_Witness ==
    /\ pc = "fetched"
    /\ content # None
    /\ gets = 3
    /\ CountTag(log, "FetchError") = 2
    /\ Len(sleeps) = 2

\* C4: when every attempt fails, fetch_content returns None as a value, no
\* exception being raised, after exactly MAX_RETRIES GETs and exactly
\* MAX_RETRIES FetchError entries.
C4_Exhaustion ==
    /\ (pc = "fetch" /\ ~(attempt < MAX_RETRIES)) =>
          /\ gets = MAX_RETRIES
          /\ exc = None
    /\ (pc = "fetched" /\ content = None) =>
          /\ gets = MAX_RETRIES
          /\ CountTag(log, "FetchError") = MAX_RETRIES
          /\ Len(log) = MAX_RETRIES
          /\ exc = None

\* C4 witness: fetch_content has returned None.
C4_Witness ==
    /\ pc = "fetched"
    /\ content = None
    /\ gets = MAX_RETRIES

\* C5: a call issues at most MAX_RETRIES GETs and none after a GET answered
\* HTTP 200, runs no stage twice, and every call that was started returns,
\* whatever the fetch outcomes are.
C5_Terminates ==
    /\ [](gets <= MAX_RETRIES)
    /\ [][gets' = gets + 1 =>
            ~(response # None /\ response[1].status_code = 200)]_vars
    /\ [](\A i, j \in DOMAIN trace : trace[i] = trace[j] => i = j)
    /\ \A n \in 1 .. MaxRuns :
          (calls = n /\ pc = "validate") ~> (calls = n /\ pc = "returned")

\* C5 witness: a call that used every GET it may issue ran all its stages and
\* returned.
C5_Witness ==
    /\ Returned
    /\ gets = MAX_RETRIES
    /\ Len(trace) = 4
    /\ result[1].success

\* C6 (as stated): the whole-second part of the sleep after failed attempt i
\* is exactly 2^i, and the sleeps of one fetch are strictly increasing.
C6_WholeSecondsExact ==
    /\ \A i \in DOMAIN sleeps : WholeSeconds(sleeps[i]) = Pow2(i - 1)
    /\ \A i \in DOMAIN sleeps :
          i > 1 => sleeps[i - 1] < sleeps[i]

\* C6 (amended): the sleep after failed attempt i is 2^i seconds plus a
\* jitter in [0,1), rounded to a float: it lies in [2^i, 2^i + 1] seconds,
\* both ends included, and the sleeps of one fetch never decrease.
C6_BackoffRange ==
    /\ \A i \in DOMAIN sleeps :
          /\ Pow2(i - 1) * TicksPerSecond <= sleeps[i]
          /\ sleeps[i] <= (Pow2(i - 1) + 1) * TicksPerSecond
    /\ \A i \in DOMAIN sleeps :
          i > 1 => sleeps[i - 1] <= sleeps[i]

\* C6 witness: a fetch slept MAX_RETRIES times and the first sleep was rounded
\* up to two whole seconds.
C6_Witness ==
    /\ Len(sleeps) = MAX_RETRIES
    /\ WholeSeconds(sleeps[1]) = 2

\* C7: the stages run one after the other, each at most once, in the order
\* company, contact, product, export, on the one company record of the call;
\* sheet.append_row is called once, after the three extractors and before the
\* update to 100 / Completed, and a successful call has run all four stages.
C7_StageOrder ==
    LET order == <<"company", "contact", "product", "export">> IN
    /\ Len(trace) <= 4
    /\ trace = SubSeq(order, 1, Len(trace))
    /\ (trace # <<>>) => (company # None /\ company[1].url = url.text)
    /\ (sink_calls # <<>>) => (trace = order /\ Len(sink_calls) = 1)
    /\ (progress = 100) => (trace = order /\ Len(sink_calls) = 1)
    /\ (Returned /\ result[1].success) => (trace = order /\ Len(sink_calls) = 1)
    /\ (pc = "contact") => trace = <<"company">>
    /\ (pc = "product") => trace = <<"company", "contact">>
    /\ (pc = "export") => (trace = <<"company", "contact", "product">>
                             /\ sink_calls = <<>>)
    /\ (pc = "finalize") => (trace = order /\ progress < 100)

\* C7 witness: a call returned success.
C7_Witness ==
    /\ Returned
    /\ result[1].success
    /\ trace = <<"company", "contact", "product", "export">>
    /\ sink_calls = <<"stored">>

\* the record the three extractors build from a page, found and kept being
\* the emails and phones in the order the lists took
Extracted(page, u, found, kept) ==
    ProductExtract(page, u,
        ContactExtract(page, u, CompanyExtract(page, u, NewCompany(u)),
                       found, kept))

\* C8: a call in which sheet.append_row raised, and nothing else did, returns
\* success, and its data are the full company record built from the page, the
\* same as those of a call in which the row was stored.
C8_SinkFailureIsolated ==
    (Returned /\ sink_calls # <<>> /\ ~faulted) =>
        /\ result[1].success
        /\ result[1].data = ToDict(Extracted(content[1], url, company[1].emails,
                                             company[1].phones))
        /\ sheet_rows <= calls

\* C8 witness: the sink raised and the call returned success with a product.
C8_Witness ==
    /\ Returned
    /\ sink_calls = <<"raised">>
    /\ result[1].success
    /\ Len(result[1].data.products) > 0

\* C9 (as stated): with a valid URL, a GET answered HTTP 200 and no exception
\* in a later stage, the call returns success, whatever the body.
C9_SuccessOn200 ==
    (Returned /\ ~InvalidUrl /\ ~faulted
        /\ response # None /\ response[1].status_code = 200) =>
        result[1].success

\* C10 (as stated): the updates of a successful call are exactly the six
\* 5, 15, 25, 40, 60, 100.
C10_SixUpdates ==
    (Returned /\ result[1].success) =>
        updates = << <<5, "Validating URL">>,
                     <<15, "Fetching website content">>,
                     <<25, "Extracting company information">>,
                     <<40, "Extracting contact information">>,
                     <<60, "Discovering product information">>,
                     <<100, "Completed">> >>

\* C10 (amended): the updates of a successful call are exactly 5 Validating,
\* 10 Starting extraction, 15 Fetching, 25 ExtractingCompany,
\* 40 ExtractingContact, 60 ExtractingProduct, 100 Completed, in this order,
\* and at any moment the updates made so far are a prefix of this list.
C10_SevenUpdates ==
    LET all == << <<5, "Validating URL">>,
                  <<10, "Starting extraction">>,
                  <<15, "Fetching website content">>,
                  <<25, "Extracting company information">>,
                  <<40, "Extracting contact information">>,
                  <<60, "Discovering product information">>,
                  <<100, "Completed">> >>
    IN /\ Len(updates) <= Len(all)
       /\ updates = SubSeq(all, 1, Len(updates))
       /\ (updates # <<>>) =>
             (progress = updates[Len(updates)][1] /\ status = updates[Len(updates)][2])
       /\ (Returned /\ result[1].success) => updates = all

\* C10 witness: a successful call, its progress at 100.
C10_Witness ==
    /\ Returned
    /\ result[1].success
    /\ progress = 100
    /\ Len(updates) = 7

\* C11: in every state of a call progress is an integer in 0..100, it is the
\* value of the latest update, and no update carries a smaller value than the
\* update before it, on the success path and on every failure path.
C11_ProgressMonotone ==
    /\ progress \in 0 .. 100
    /\ \A i \in DOMAIN updates : updates[i][1] \in 0 .. 100
    /\ \A i \in DOMAIN updates : i > 1 => updates[i - 1][1] <= updates[i][1]
    /\ (updates # <<>>) => progress = updates[Len(updates)][1]
    /\ (updates = <<>>) => progress = 0

\* C11 witness: a call that failed after its last update: to_dict raised, and
\* the failure was returned with progress at 100.
C11_Witness ==
    /\ Returned
    /\ ~result[1].success
    /\ faulted
    /\ progress = 100
    /\ Len(updates) = 7

\* the stage named st of extract_data has run in the current call
Ran(st) == \E i \in DOMAIN trace : trace[i] = st

\* C12: the row handed to the sink has 15 cells, one per header and in the
\* headers' order: URL, name, type, description, emails, phones, addresses,
\* then name, category, price, description, features, specifications of the
\* first product (blank cells and "N/A" when there is no product), the other
\* products, the timestamp; the price cell is "N/A" when the price is unset
\* and both description cells have at most 500 characters.
C12_ExportRow ==
    row_sent # None =>
        LET row == row_sent[1]
            c == company[1]
        IN /\ Len(row) = 15
           /\ Len(row) = Len(Headers)
           /\ row[1] = c.url
           /\ row[2] = c.company_name
           /\ row[3] = c.company_type
           /\ row[4].text = c.company_description.text
           /\ row[4].len = Min(c.company_description.len, 500)
           /\ row[5] = Join("; ", c.emails)
           /\ row[6] = Join("; ", c.phones)
           /\ row[7] = Join("; ", c.addresses)
           /\ row[11].len <= 500
           /\ row[15] = "now"
           /\ IF c.products = <<>>
              THEN /\ row[8] = "" /\ row[9] = ""
                   /\ row[10] = <<"N/A">>
                   /\ row[11] = NoText
                   /\ row[12].parts = <<>> /\ row[13].parts = <<>>
                   /\ row[14].parts = <<>>
              ELSE LET p == c.products[1] IN
                   /\ row[8] = p.product_name
                   /\ row[9] = p.main_category
                   /\ (p.price = 0) => row[10] = <<"N/A">>
                   /\ row[11].text = p.product_description.text
                   /\ row[11].len = Min(p.product_description.len, 500)
                   /\ row[12] = Join("; ", Prefix(p.features, 5))
                   /\ row[13] = Join("; ", Prefix(p.specifications, 3))
                   /\ Len(row[14].parts) = Len(c.products) - 1
                   /\ \A i \in DOMAIN row[14].parts :
                         /\ row[14].parts[i].name = c.products[i + 1].product_name
                         /\ row[14].parts[i].category =
                               c.products[i + 1].main_category

C12_Witness ==
    /\ row_sent # None
    /\ Len(company[1].products) = 2
    /\ company[1].products[1].product_description.len > 500
    /\ row_sent[1][11].len = 500
    /\ row_sent[1][14].sep = " | "

\* C13: every product of the company record has a non-empty name, in every
\* state and on each of the Apple, Microsoft, Samsung and generic paths.
C13_ProductsNamed ==
    company # None =>
        \A i \in DOMAIN company[1].products :
            company[1].products[i].product_name # ""

C13_Witness ==
    /\ Ran("product")
    /\ Domain(url) = "apple"
    /\ NamedProduct(url).product_name = ""
    /\ content[1].product_desc # None
    /\ content[1].features # <<>>
    /\ company[1].products = <<>>

\* C14: once the contact extractor has run, company.emails and company.phones
\* hold no entry twice and company.phones has at most 5 entries.
C14_ContactLists ==
    (company # None /\ Ran("contact")) =>
        LET c == company[1] IN
        /\ \A i, j \in DOMAIN c.emails : c.emails[i] = c.emails[j] => i = j
        /\ \A i, j \in DOMAIN c.phones : c.phones[i] = c.phones[j] => i = j
        /\ Len(c.phones) <= 5

C14_Witness ==
    /\ Returned
    /\ Ran("contact")
    /\ Cardinality(ValidPhones(content[1])) = 6
    /\ Len(content[1].phones) = 8
    /\ Len(company[1].phones) = 5
    /\ Len(company[1].emails) = 2
    /\ Len(content[1].emails) = 4

\* the dispatch rules in the order the claim gives them
Rules == << "apple.com", "microsoft.com", "samsung.com" >>

\* the first rule a URL matches, 0 when it matches none
FirstMatch(u) ==
    LET matching == {i \in DOMAIN Rules : Rules[i] \in u.has} IN
    IF matching = {} THEN 0
    ELSE CHOOSE i \in matching : \A j \in matching : i <= j

BrandNames == << "Apple", "Microsoft", "Samsung" >>

BrandProducts ==
    << {"iPhone 15 Pro", "iPhone", "MacBook", "iPad"},
       {"Microsoft 365", "Surface", "Windows"},
       {"Galaxy S23 Ultra"} >>

\* C19: the company name and the product strategy are both chosen by the
\* first rule the URL matches (apple.com, then microsoft.com, then
\* samsung.com, else generic), also for a URL that matches several rules, and
\* one strategy only runs: a known domain yields its brand name and at most
\* one product, of that brand; any other URL yields neither.
C19_OrderedDispatch ==
    company # None =>
        LET c == company[1]
            k == FirstMatch(url)
        IN /\ Ran("company") =>
                 IF k > 0 THEN c.company_name = BrandNames[k]
                 ELSE \A b \in DOMAIN BrandNames : c.company_name # BrandNames[b]
           /\ Ran("product") =>
                 IF k > 0
                 THEN /\ Len(c.products) <= 1
                      /\ \A i \in DOMAIN c.products :
                            c.products[i].product_name \in BrandProducts[k]
                 ELSE \A i \in DOMAIN c.products : \A b \in DOMAIN BrandProducts :
                            c.products[i].product_name \notin BrandProducts[b]

C19_Witness ==
    /\ Returned
    /\ result[1].success
    /\ {"samsung.com", "microsoft.com"} \subseteq url.has
    /\ company[1].company_name = "Microsoft"
    /\ Len(company[1].products) = 1
    /\ company[1].products[1].product_name = "Surface"

\* C20: when a call has returned a failure, the log holds an entry for that
\* call's url and id: a validation error, a failed operation, or a processing
\* error with its trace.
C20_FailureLogged ==
    (Returned /\ ~result[1].success) =>
        \E i \in DOMAIN log :
            /\ log[i].id = extraction_id
            /\ log[i].url = url.text
            /\ \/ log[i].level = "error" /\ log[i].tag = "ValidationError"
               \/ log[i].level = "operation" /\ log[i].tag = "Failed"
               \/ /\ log[i].level = "error" /\ log[i].tag = "ProcessingError"
                  /\ log[i].trace

C20_Witness ==
    /\ Returned
    /\ ~result[1].success
    /\ exc # None
    /\ calls = 2
    /\ log[Len(log)] = [level |-> "error", tag |-> "ProcessingError", id |-> 2,
                         url |-> url.text, trace |-> TRUE]

\* C15: clean_text applied to its own result gives that result again, for
\* every text. (The code does not keep this.)
C15_CleanIdempotent ==
    text_fn = "clean_text twice" => text_ret = clean_text(text_arg)

\* the original statement of C16: from the example content the address of
\* jane.doe is returned and the address of test is not
C16_ExampleKept ==
    (text_fn = "valid_emails" /\ text_arg = EmailSample) =>
        /\ \E e \in text_ret : Contains(e, <<"j", "a", "n", "e", ".", "d", "o", "e", "@">>)
        /\ ~\E e \in text_ret : Contains(e, <<"t", "e", "s", "t", "@">>)

\* C16: every returned email is in lower case, is the lower-case form of a
\* match of the pattern in the content and contains none of "example",
\* "test", "user", "email"; the example content, whose two addresses both
\* contain "example", yields no email, and an address written in two
\* spellings is returned once.
C16_EmailsFiltered ==
    text_fn = "valid_emails" =>
        /\ \A e \in text_ret :
              /\ \A i \in DOMAIN e : e[i] \notin Letters \/
                    \E k \in DOMAIN LowerLetters : LowerLetters[k] = e[i]
              /\ \E i, j \in DOMAIN text_arg :
                    Lower(SubSeq(text_arg, i, j)) = e
              /\ \A w \in SkipWords :
                    \A i \in 1 .. (Len(e) - Len(w) + 1) :
                        SubSeq(e, i, i + Len(w) - 1) # w
        /\ (text_arg = EmailSample) => text_ret = {}
        /\ (text_arg = EmailCaseSample) => Cardinality(text_ret) = 1

C16_Witness ==
    /\ text_fn = "valid_emails"
    /\ text_arg = EmailSample
    /\ Len(FindEmails(text_arg, 1)) = 2
    /\ text_ret = {}

\* C17: "(415) 555-2671" and "1-415-555-2671" both give +14155552671, a
\* content with both gives that one entry, and every phone returned starts
\* with "+1".
C17_PhonesNormalized ==
    text_fn = "valid_phones" =>
        /\ \A ph \in text_ret : Len(ph) >= 2 /\ ph[1] = "+" /\ ph[2] = "1"
        /\ (text_arg \in {PhoneParen, PhoneDashed, PhoneBoth}) =>
              text_ret = { <<"+", "1", "4", "1", "5", "5", "5", "5", "2", "6",
                             "7", "1">> }

C17_Witness ==
    /\ text_fn = "valid_phones"
    /\ text_arg = PhoneBoth
    /\ Len(FindPhones(text_arg, 1)) = 2
    /\ Cardinality(text_ret) = 1

\* the positions at which a whitespace-separated token of s starts
TokenStarts(s) ==
    {i \in DOMAIN s : ~IsSpace(s[i]) /\ (i = 1 \/ IsSpace(s[i - 1]))}

\* C18: is_valid_text accepts a text exactly when it has at least 10
\* characters, at least 2 whitespace-separated tokens and no occurrence, in
\* any letter case, of a navigation word; so it rejects every text shorter
\* than 10 characters and every text of one token.
C18_UsableText ==
    text_fn = "is_valid_text" =>
        /\ text_ret <=>
              /\ Len(text_arg) >= 10
              /\ Cardinality(TokenStarts(text_arg)) >= 2
              /\ \A w \in NavWords :
                    \A i \in 1 .. (Len(text_arg) - Len(w) + 1) :
                        Lower(SubSeq(text_arg, i, i + Len(w) - 1)) # w
        /\ Len(text_arg) < 10 => ~text_ret
        /\ Cardinality(TokenStarts(text_arg)) = 1 => ~text_ret

C18_Witness ==
    /\ text_fn = "is_valid_text"
    /\ Len(text_arg) >= 10
    /\ Len(Split(text_arg)) >= 2
    /\ Contains(text_arg, <<"N", "e", "x", "t">>)
    /\ ~text_ret

\* C21: a backoff sleep happens only before a further GET, so when
\* fetch_content is left, after a 200 or after the last failed attempt, there
\* is one sleep fewer than GETs. (The code does not keep this.)
C21_NoSleepAfterLastAttempt ==
    (pc = "fetched") => Len(sleeps) = gets - 1

\* C22: while a task is in its backoff sleep, the event loop can start
\* another task that is scheduled. (The code does not keep this.)
C22_OthersRunDuringBackoff ==
    \A a, b \in Tasks :
        (tasks[a].pc = "backoff" /\ tasks[b].pc = "scheduled") =>
            ENABLED LoopStart(b)

\* the tasks that returned r
ReturnedWith(r) ==
    {t \in Tasks : tasks[t].pc = "returned" /\ tasks[t].result = r}

\* C23: whenever no task is in the middle of a run, success is the number of
\* runs that returned success, fail the number of runs that returned a
\* failure, and processed their sum. (The code does not keep this.)
C23_CountersMatchResults ==
    (running = 0) =>
        /\ global_stats.success = Cardinality(ReturnedWith("success"))
        /\ global_stats.fail = Cardinality(ReturnedWith("failure"))
        /\ global_stats.processed = global_stats.success + global_stats.fail

\* C24: after contact extraction every address candidate longer than 10
\* characters is in company.addresses, also one that contains another
\* candidate, and no string is there twice. (The code does not keep this.)
C24_ExactAddressDedup ==
    (company # None /\ Ran("contact")) =>
        LET c == company[1]
            found == content[1].addresses
        IN /\ \A i \in DOMAIN found :
                 found[i].len > 10 =>
                     \E j \in DOMAIN c.addresses : c.addresses[j] = found[i].text
           /\ \A i, j \in DOMAIN c.addresses :
                 c.addresses[i] = c.addresses[j] => i = j

\* C25: after company extraction the description is non-empty whenever the
\* meta description, the og:description or the description section carries
\* text, and it has at most 500 characters. (The code does not keep this.)
C25_DescriptionFallsBack ==
    (company # None /\ Ran("company")) =>
        LET page == content[1]
            sources == {page.meta, page.og, page.main_desc}
        IN /\ (\E src \in sources : src # None /\ src[1].len > 0) =>
                 company[1].company_description.len > 0
           /\ company[1].company_description.len <= 500

\* C26: for a URL of no known domain company extraction leaves the type
\* empty, and so is the third cell of the row. (The code does not keep this.)
C26_GenericTypeUnset ==
    (company # None /\ Ran("company") /\ FirstMatch(url) = 0) =>
        /\ company[1].company_type = ""
        /\ row_sent # None => row_sent[1][3] = ""

\* C27: no stage removes or overwrites what an earlier stage of the run wrote:
\* company.url is the input URL in every step, the contact stage leaves name,
\* type, description and products as they are, and the product stage leaves
\* url, name, type, description, emails, phones and addresses as they are and
\* only appends to products.
C27_StagesKeepEarlierData ==
    [][(company # None /\ company' # None) =>
        LET c == company[1]
            d == company'[1]
        IN /\ c.url = url.text
           /\ d.url = url.text
           /\ pc = "contact" =>
                 /\ d.company_name = c.company_name
                 /\ d.company_type = c.company_type
                 /\ d.company_description = c.company_description
                 /\ d.products = c.products
           /\ pc = "product" =>
                 /\ d.company_name = c.company_name
                 /\ d.company_type = c.company_type
                 /\ d.company_description = c.company_description
                 /\ d.emails = c.emails
                 /\ d.phones = c.phones
                 /\ d.addresses = c.addresses
                 /\ Len(d.products) >= Len(c.products)
                 /\ SubSeq(d.products, 1, Len(c.products)) = c.products
           /\ pc \notin {"company", "contact", "product"} => d = c]_vars

\* all three stages ran and each of them left something in the company
C27_Witness ==
    /\ company # None
    /\ Ran("company") /\ Ran("contact") /\ Ran("product")
    /\ company[1].company_name # ""
    /\ company[1].company_description.len > 0
    /\ company[1].emails # <<>>
    /\ company[1].addresses # <<>>
    /\ company[1].products # <<>>

\* the calls made after the constructor
CallsMade == Tail(sheet_calls)

====
